---- MODULE Spec2Model ----
(***************************************************************************)
(* Model of the tabular store of astinus (src/src/spreadsheet.rs): the     *)
(* SQLite tables `columns` and `cells`, the cached row_count and the dirty *)
(* flag of struct Spreadsheet, and the operations of impl Spreadsheet.     *)
(*                                                                         *)
(* `columns` has id INTEGER PRIMARY KEY, so it is a set of rows with       *)
(* pairwise distinct ids.  `cells` has no key at all, so it is a bag of    *)
(* rows.  Every SQL statement is one autocommitted statement: a statement  *)
(* that violates a constraint is rolled back alone and reported, the       *)
(* statements before it stay applied.                                      *)
(*                                                                         *)
(* `window` is MainWindow (src/src/ui.rs): the current page, whether it    *)
(* holds a spreadsheet (`opened`; the store variables then describe that   *)
(* spreadsheet, and an empty store otherwise), the number of rows in the   *)
(* ListStore of the view, and whether a handler has panicked.  The widgets *)
(* and dialogs are inputs of the handlers.                                 *)
(***************************************************************************)
EXTENDS Integers, Sequences, FiniteSets, Bags

VARIABLES columns, cells, row_count, dirty, last, window

vars == <<columns, cells, row_count, dirty, last, window>>

----------------------------------------------------------------------------
(* Bounds of the model.                                                    *)

\* Largest index handed to an operation and largest row / column id stored.
MaxIndex == 2
\* Largest cached row_count.
MaxRowCount == 3
\* row_count is not driven below -MaxDeficit.
MaxDeficit == 1
\* Largest number of rows of table `cells`.
MaxCells == 4
\* Largest number of values of one insert_row / names of one insert_columns.
MaxWidth == 2
\* Largest number of rows of table `columns`.
MaxColumns == 2

\* Largest number of cells and largest row_count when columns are inserted too.
SmallCells == 2
SmallRowCount == 1

\* Largest number of cells and of columns when storage failures are explored.
FaultCells == 1
FaultColumns == 1

\* Largest number of records of a file that is opened.
MaxRecords == 2

\* The pager is explored on stores of up to MaxPages full pages and a part.
MaxPages == 2

\* The window is explored until row_count is MaxEmptyPages pages below zero.
MaxEmptyPages == 1

Texts == {"1", "2"}
Names == {"A", "B"}

\* Integers handed in as Index(i), row, column, start or end.
Indices == (-1)..MaxIndex

\* Vec<String> arguments.
SeqsUpTo(S, n) == UNION {[1..k -> S] : k \in 0..n}

----------------------------------------------------------------------------
(* Option<String> and InsertPosition.                                      *)

None == <<>>
Some(v) == <<v>>
OptionTexts == {None} \cup {Some(v) : v \in Texts}

End == [kind |-> "End", i |-> 0]
Index(i) == [kind |-> "Index", i |-> i]
InsertPosition == {End} \cup {Index(i) : i \in Indices}

max(a, b) == IF a >= b THEN a ELSE b
min(a, b) == IF a <= b THEN a ELSE b

\* The entry of `last` describing no call at all (state after new()).
NoCall ==
  [op |-> "new", position |-> End, values |-> <<>>, row |-> 0, column |-> 0,
   value |-> None, start |-> 0, end |-> 0, ok |-> TRUE, result |-> <<>>,
   rows |-> <<>>, failed |-> 0, page |-> 0, updated |-> FALSE,
   from |-> 0, to |-> 0, answer |-> FALSE, picked |-> FALSE, saved |-> FALSE]

Call(op) == [NoCall EXCEPT !.op = op]

----------------------------------------------------------------------------
(* Spreadsheet::new                                                        *)

Init ==
  /\ columns = {}
  /\ cells = EmptyBag
  /\ row_count = 0
  /\ dirty = FALSE
  /\ last = NoCall
  /\ window = [page |-> 1, opened |-> FALSE, view |-> 0, crashed |-> FALSE]

----------------------------------------------------------------------------
(* Table `columns`.                                                        *)

\* SELECT COUNT(id) FROM columns
get_column_count(cols) == Cardinality(cols)

MinId(ids) == CHOOSE i \in ids : \A j \in ids : i <= j

\* SELECT name FROM columns ORDER BY id ASC
RECURSIVE get_columns(_)
get_columns(cols) ==
  IF cols = {} THEN <<>>
  ELSE LET first == CHOOSE c \in cols : c.id = MinId({d.id : d \in cols})
       IN  <<first.name>> \o get_columns(cols \ {first})

\* UPDATE columns SET id = id + shift_amount WHERE id >= position.
\* The rows to update are visited in rowid (= id) order; the PRIMARY KEY is
\* checked as each row is rewritten, against the rows as they are then.  A
\* violation aborts the statement: the table is left as it was.
RECURSIVE ShiftScan(_, _, _, _)
ShiftScan(original, table, todo, shift_amount) ==
  IF todo = {} THEN [ok |-> TRUE, table |-> table]
  ELSE LET id  == MinId(todo)
           old == CHOOSE c \in table : c.id = id
           new == [old EXCEPT !.id = id + shift_amount]
       IN  IF new.id # id /\ \E c \in table : c.id = new.id
             THEN [ok |-> FALSE, table |-> original]
             ELSE ShiftScan(original, (table \ {old}) \cup {new},
                            todo \ {id}, shift_amount)

ShiftColumns(cols, shift_amount, position) ==
  ShiftScan(cols, cols, {c.id : c \in {d \in cols : d.id >= position}},
            shift_amount)

\* for (offset, value) in names: INSERT INTO columns (id, name) VALUES (?, ?)
\* One statement per name; the first one rejected by the PRIMARY KEY ends the
\* loop with the earlier ones applied.
RECURSIVE InsertColumnRows(_, _, _, _)
InsertColumnRows(table, position, names, offset) ==
  IF offset >= Len(names) THEN [ok |-> TRUE, table |-> table]
  ELSE LET pos == position + offset
       IN  IF \E c \in table : c.id = pos
             THEN [ok |-> FALSE, table |-> table]
             ELSE InsertColumnRows(
                    table \cup {[id |-> pos, name |-> names[offset + 1]]},
                    position, names, offset + 1)

\* The index insert_columns / insert_row resolve a position to.
ColumnPosition(position) ==
  IF position.kind = "Index" THEN position.i ELSE get_column_count(columns)

\* Outcome of Spreadsheet::insert_columns on table cols.
InsertColumnsOutcome(cols, position, names) ==
  LET shifted == ShiftColumns(cols, Len(names), position)
  IN  IF ~shifted.ok THEN shifted
      ELSE InsertColumnRows(shifted.table, position, names, 0)

insert_columns(position, names) ==
  LET out == InsertColumnsOutcome(columns, ColumnPosition(position), names)
  IN  /\ columns' = out.table
      /\ dirty' = IF out.ok THEN TRUE ELSE dirty
      /\ last' = [Call("insert_columns") EXCEPT
                    !.position = position, !.values = names, !.ok = out.ok]
      /\ UNCHANGED <<cells, row_count, window>>

----------------------------------------------------------------------------
(* Table `cells`.                                                          *)

\* UPDATE cells SET row = row + 1 WHERE row >= from
ShiftRowsDown(tbl, from) ==
  BagOfAll(LAMBDA x : IF x.row >= from THEN [x EXCEPT !.row = @ + 1] ELSE x,
           tbl)

\* for (pos, value) in values: INSERT INTO cells (column, row, value)
NewCells(row, values) ==
  SetToBag({[column |-> pos - 1, row |-> row, value |-> Some(values[pos])]
              : pos \in 1..Len(values)})

\* insert_row writing the new cells before it shifts the rows.
InsertRowCells_WriteThenShift(tbl, count, position, values) ==
  LET row == IF position.kind = "Index" THEN position.i ELSE count
      written == tbl (+) NewCells(row, values)
  IN  IF position # End THEN ShiftRowsDown(written, row) ELSE written

\* The table `cells` after Spreadsheet::insert_row.
InsertRowCells(tbl, count, position, values) ==
  LET row == IF position.kind = "Index" THEN position.i ELSE count
      shifted == IF position # End THEN ShiftRowsDown(tbl, row) ELSE tbl
  IN  shifted (+) NewCells(row, values)

insert_row(position, values) ==
  /\ cells' = InsertRowCells(cells, row_count, position, values)
  /\ row_count' = row_count + 1
  /\ dirty' = TRUE
  /\ last' = [Call("insert_row") EXCEPT
                !.position = position, !.values = values]
  /\ UNCHANGED <<columns, window>>

\* let start = max(0, min(self.get_row_count(), start)), and so for end.
ClampRow(count, i) == max(0, min(count, i))

\* delete_rows shifting by end - start, one less than the rows deleted.
DeleteRowsCells_ShortShift(tbl, start, end) ==
  LET count == end - start
      kept == [x \in {y \in DOMAIN tbl : ~(y.row >= start /\ y.row <= end)}
                |-> tbl[x]]
  IN  BagOfAll(LAMBDA x : IF x.row > end THEN [x EXCEPT !.row = @ - count]
                          ELSE x, kept)

\* DELETE FROM cells WHERE row >= start AND row <= end, then
\* UPDATE cells SET row = row - count WHERE row > end
DeleteRowsCells(tbl, start, end) ==
  LET count == end - start + 1
      kept == [x \in {y \in DOMAIN tbl : ~(y.row >= start /\ y.row <= end)}
                |-> tbl[x]]
  IN  BagOfAll(LAMBDA x : IF x.row > end THEN [x EXCEPT !.row = @ - count]
                          ELSE x, kept)

\* delete_rows taking an inverted range as the range between its two ends.
delete_rows_SwapInverted(start_arg, end_arg) ==
  LET lo    == ClampRow(row_count, start_arg)
      hi    == ClampRow(row_count, end_arg)
      start == min(lo, hi)
      end   == max(lo, hi)
      count == end - start + 1
  IN  /\ cells' = DeleteRowsCells(cells, start, end)
      /\ row_count' = row_count - count
      /\ dirty' = TRUE
      /\ last' = [Call("delete_rows") EXCEPT
                    !.start = start_arg, !.end = end_arg]
      /\ UNCHANGED <<columns, window>>

delete_rows(start_arg, end_arg) ==
  LET start == ClampRow(row_count, start_arg)
      end   == ClampRow(row_count, end_arg)
      count == end - start + 1
  IN  IF start > end
        THEN /\ last' = [Call("delete_rows") EXCEPT
                           !.start = start_arg, !.end = end_arg, !.ok = FALSE]
             /\ UNCHANGED <<columns, cells, row_count, dirty, window>>
        ELSE /\ cells' = DeleteRowsCells(cells, start, end)
             /\ row_count' = row_count - count
             /\ dirty' = TRUE
             /\ last' = [Call("delete_rows") EXCEPT
                           !.start = start_arg, !.end = end_arg]
             /\ UNCHANGED <<columns, window>>

\* UPDATE cells SET value = ? WHERE row = ? AND column = ?
SetCellCells(tbl, row, column, value) ==
  BagOfAll(LAMBDA x : IF x.row = row /\ x.column = column
                        THEN [x EXCEPT !.value = value] ELSE x, tbl)

\* set_cell leaving the dirty flag as it is.
set_cell_KeepsDirty(row, column, value) ==
  /\ cells' = SetCellCells(cells, row, column, value)
  /\ last' = [Call("set_cell") EXCEPT
                !.row = row, !.column = column, !.value = value]
  /\ UNCHANGED <<columns, row_count, dirty, window>>

set_cell(row, column, value) ==
  /\ cells' = SetCellCells(cells, row, column, value)
  /\ dirty' = TRUE
  /\ last' = [Call("set_cell") EXCEPT
                !.row = row, !.column = column, !.value = value]
  /\ UNCHANGED <<columns, row_count, window>>

\* SELECT value FROM cells WHERE row = ? AND column = ?, first row of the
\* result, unwrap_or(None): every value get_cell may return.  No row gives
\* None; of several rows with the key any one may come first.
get_cell(tbl, row, column) ==
  LET found == {x \in BagToSet(tbl) : x.row = row /\ x.column = column}
  IN  IF found = {} THEN {None} ELSE {x.value : x \in found}

GetCell(row, column) ==
  /\ \E value \in get_cell(cells, row, column) :
       last' = [Call("get_cell") EXCEPT
                  !.row = row, !.column = column, !.result = value]
  /\ UNCHANGED <<columns, cells, row_count, dirty, window>>

----------------------------------------------------------------------------
(* Storage failures.  Every execute(..)? and prepare_cached(..)? returns   *)
(* at once with the error of the statement that failed.  SQLite undoes the *)
(* failed statement alone; the statements executed before it stay applied, *)
(* since no call opens a transaction.  `failed` numbers, from 1, the first *)
(* statement of the call that fails; of a failed call `last` keeps that    *)
(* number and not the arguments.                                           *)

\* Statements of insert_row: the UPDATE unless appending, prepare_cached,
\* then one INSERT per value.
InsertRowStatements(position, values) ==
  (IF position # End THEN 1 ELSE 0) + 1 + Len(values)

\* The table `cells` when statement `failed` of insert_row fails.
InsertRowCellsBefore(tbl, count, position, values, failed) ==
  LET row     == IF position.kind = "Index" THEN position.i ELSE count
      shifts  == IF position # End THEN 1 ELSE 0
      shifted == IF shifts = 1 /\ failed > 1
                   THEN ShiftRowsDown(tbl, row) ELSE tbl
      written == max(0, failed - shifts - 2)
  IN  shifted (+) NewCells(row, SubSeq(values, 1, written))

\* insert_row counting the new row before it writes it.
insert_row_err_CountFirst(position, values, failed) ==
  /\ failed \in 1..InsertRowStatements(position, values)
  /\ cells' = InsertRowCellsBefore(cells, row_count, position, values, failed)
  /\ row_count' = row_count + 1
  /\ last' = [Call("insert_row") EXCEPT !.ok = FALSE, !.failed = failed]
  /\ UNCHANGED <<columns, dirty, window>>

insert_row_err(position, values, failed) ==
  /\ failed \in 1..InsertRowStatements(position, values)
  /\ cells' = InsertRowCellsBefore(cells, row_count, position, values, failed)
  /\ last' = [Call("insert_row") EXCEPT !.ok = FALSE, !.failed = failed]
  /\ UNCHANGED <<columns, row_count, dirty, window>>

\* DELETE FROM cells WHERE row >= start AND row <= end
DeleteRange(tbl, start, end) ==
  [x \in {y \in DOMAIN tbl : ~(y.row >= start /\ y.row <= end)} |-> tbl[x]]

\* delete_rows failing in its DELETE (1) or in its UPDATE (2).
delete_rows_err(start_arg, end_arg, failed) ==
  LET start == ClampRow(row_count, start_arg)
      end   == ClampRow(row_count, end_arg)
  IN  /\ start <= end
      /\ failed \in 1..2
      /\ cells' = IF failed = 1 THEN cells ELSE DeleteRange(cells, start, end)
      /\ last' = [Call("delete_rows") EXCEPT
                    !.ok = FALSE, !.failed = failed]
      /\ UNCHANGED <<columns, row_count, dirty, window>>

\* set_cell failing in its UPDATE.
set_cell_err(row, column, value) ==
  /\ last' = [Call("set_cell") EXCEPT !.ok = FALSE, !.failed = 1]
  /\ UNCHANGED <<columns, cells, row_count, dirty, window>>

\* insert_columns failing in its UPDATE (1) or in the INSERT of names[failed
\* - 1], for a reason other than the PRIMARY KEY, which insert_columns covers.
insert_columns_err(position, names, failed) ==
  LET at      == ColumnPosition(position)
      shifted == ShiftColumns(columns, Len(names), at)
      out     == InsertColumnRows(shifted.table, at,
                                  SubSeq(names, 1, failed - 2), 0)
  IN  /\ failed \in 1..(1 + Len(names))
      /\ failed > 1 => shifted.ok /\ out.ok
      /\ columns' = IF failed = 1 THEN columns ELSE out.table
      /\ last' = [Call("insert_columns") EXCEPT
                    !.ok = FALSE, !.failed = failed]
      /\ UNCHANGED <<cells, row_count, dirty, window>>

----------------------------------------------------------------------------
(* Spreadsheet::open and formats::load_csv.                                *)

\* for (pos, header) in headers: INSERT INTO columns (id, name)
LoadColumns(headers) ==
  {[id |-> pos - 1, name |-> headers[pos]] : pos \in 1..Len(headers)}

\* while let Some(Ok(record)) = records.next(), row counting from 0:
\* for (pos, value) in record: INSERT INTO cells (row, column, value)
LoadCells(records) ==
  SetToBag(UNION {{[column |-> pos - 1, row |-> row - 1,
                    value |-> Some(records[row][pos])]
                     : pos \in 1..Len(records[row])}
                    : row \in 1..Len(records)})

\* The records a csv::Reader yields for a file with these headers: each has
\* as many fields as there are headers.
Records(headers) ==
  {record \in SeqsUpTo(Texts, MaxWidth) : Len(record) = Len(headers)}

\* open forgetting to clear the dirty flag once the file is loaded.
open_Dirty(headers, records, loaded) ==
  IF loaded
    THEN /\ columns' = LoadColumns(headers)
         /\ cells' = LoadCells(records)
         /\ row_count' = 0
         /\ dirty' = (cells' # EmptyBag)
         /\ last' = [Call("open") EXCEPT
                       !.values = headers, !.rows = records]
         /\ UNCHANGED window
    ELSE /\ last' = [Call("open") EXCEPT !.ok = FALSE]
         /\ UNCHANGED <<columns, cells, row_count, dirty, window>>

\* The spreadsheet is replaced by Spreadsheet::open(path), path a file with
\* these headers and records: Self::new(), then the loader, which writes
\* the two tables, then clear_dirty.  When the extension is not csv or the
\* loader fails (loaded = FALSE) there is no new spreadsheet.
open(headers, records, loaded) ==
  IF loaded
    THEN /\ columns' = LoadColumns(headers)
         /\ cells' = LoadCells(records)
         /\ row_count' = 0
         /\ dirty' = FALSE
         /\ last' = [Call("open") EXCEPT
                       !.values = headers, !.rows = records]
         /\ UNCHANGED window
    ELSE /\ last' = [Call("open") EXCEPT !.ok = FALSE]
         /\ UNCHANGED <<columns, cells, row_count, dirty, window>>

----------------------------------------------------------------------------
(* Spreadsheet::save, clear_dirty, is_dirty and the getters.               *)

\* formats::save_csv(path, self)?; self.clear_dirty().  `written` is the
\* outcome of the writer, which reads the store and does not change it.
save(written) ==
  /\ dirty' = IF written THEN FALSE ELSE dirty
  /\ last' = [Call("save") EXCEPT !.ok = written]
  /\ UNCHANGED <<columns, cells, row_count, window>>

clear_dirty ==
  /\ dirty' = FALSE
  /\ last' = Call("clear_dirty")
  /\ UNCHANGED <<columns, cells, row_count, window>>

is_dirty ==
  /\ last' = [Call("is_dirty") EXCEPT !.result = <<dirty>>]
  /\ UNCHANGED <<columns, cells, row_count, dirty, window>>

GetColumnCount ==
  /\ last' = [Call("get_column_count") EXCEPT
                !.result = <<get_column_count(columns)>>]
  /\ UNCHANGED <<columns, cells, row_count, dirty, window>>

get_row_count ==
  /\ last' = [Call("get_row_count") EXCEPT !.result = <<row_count>>]
  /\ UNCHANGED <<columns, cells, row_count, dirty, window>>

----------------------------------------------------------------------------
(* Spreadsheet::get_rows                                                   *)

\* The orders in which a bag of values can be listed.
RECURSIVE Orderings(_)
Orderings(B) ==
  IF B = EmptyBag THEN {<<>>}
  ELSE UNION {{<<v>> \o rest : rest \in Orderings(B (-) SetToBag({v}))}
                : v \in BagToSet(B)}

\* The values stored under key (row, column), with their multiplicities.
ValuesAt(tbl, row, column) ==
  LET at == {x \in BagToSet(tbl) : x.row = row /\ x.column = column}
  IN  [v \in {x.value : x \in at} |->
         tbl[[column |-> column, row |-> row, value |-> v]]]

KeyBefore(k, l) == k[1] < l[1] \/ (k[1] = l[1] /\ k[2] <= l[2])

\* SELECT row, value FROM cells WHERE row >= start AND row <= end
\* ORDER BY row, column ASC: every sequence of (row, value) the query may
\* produce.  Rows of the table with equal (row, column) come in any order.
RECURSIVE Scan(_, _)
Scan(tbl, keys) ==
  IF keys = {} THEN {<<>>}
  ELSE LET k == CHOOSE a \in keys : \A b \in keys : KeyBefore(a, b)
           heads == {[i \in DOMAIN vs |-> [row |-> k[1], value |-> vs[i]]]
                       : vs \in Orderings(ValuesAt(tbl, k[1], k[2]))}
       IN  UNION {{h \o t : t \in Scan(tbl, keys \ {k})} : h \in heads}

SelectRange(tbl, start, end) ==
  Scan(tbl, {<<x.row, x.column>>
               : x \in {y \in BagToSet(tbl) : y.row >= start /\ y.row <= end}})

\* The while loop of get_rows over the query's results, and the final push.
RECURSIVE CollectRows(_, _, _, _)
CollectRows(results, start, rows, row) ==
  IF results = <<>> THEN Append(rows, row)
  ELSE LET result == Head(results)
           current_row == result.row
       IN  IF current_row - start > Len(rows)
             THEN CollectRows(Tail(results), start, Append(rows, row),
                              <<result.value>>)
             ELSE CollectRows(Tail(results), start, rows,
                              Append(row, result.value))

\* Every Vec<Vec<Option<String>>> get_rows(start, end) may return.
get_rows(tbl, start, end) ==
  {CollectRows(results, start, <<>>, <<>>)
     : results \in SelectRange(tbl, start, end)}

GetRows(start, end) ==
  /\ \E rows \in get_rows(cells, start, end) :
       last' = [Call("get_rows") EXCEPT
                  !.start = start, !.end = end, !.result = rows]
  /\ UNCHANGED <<columns, cells, row_count, dirty, window>>

GetColumns ==
  /\ last' = [Call("get_columns") EXCEPT !.result = get_columns(columns)]
  /\ UNCHANGED <<columns, cells, row_count, dirty, window>>

----------------------------------------------------------------------------
(* MainWindow: the pager (src/src/ui.rs).                                  *)

PAGE_SIZE == 1000

\* Division of i64: the quotient is truncated toward zero.
Div(a, b) == IF a >= 0 THEN a \div b ELSE 0 - ((0 - a) \div b)

get_current_page(w) == w.page

\* get_page_count dividing rounded up: no page after the last row.
get_page_count_RoundedUp(count) == Div(count + PAGE_SIZE - 1, PAGE_SIZE)

\* spreadsheet.get_row_count() / PAGE_SIZE + 1, a spreadsheet being open.
get_page_count(count) == Div(count, PAGE_SIZE) + 1

get_first_row_offset(w) == (get_current_page(w) - 1) * PAGE_SIZE

\* get_last_row_offset taking the end of the page for the end of the rows.
get_last_row_offset_WholePage(w, count) ==
  get_first_row_offset(w) + PAGE_SIZE - 1

get_last_row_offset(w, count) ==
  min(get_first_row_offset(w) + PAGE_SIZE - 1, count - 1)

\* go_to_page updating the view whether or not the page has changed.
GoToPage_AlwaysUpdates(caller, requested) ==
  LET page  == max(1, min(requested, get_page_count(row_count)))
      moved == [window EXCEPT !.page = page]
      start == get_first_row_offset(moved)
      end   == get_last_row_offset(moved, row_count)
  IN  /\ \E rows \in get_rows(cells, start, end) :
           /\ window' = [moved EXCEPT !.view = Len(rows)]
           /\ last' = [Call(caller) EXCEPT
                         !.page = requested, !.updated = TRUE,
                         !.start = start, !.end = end, !.result = rows]
      /\ UNCHANGED <<columns, cells, row_count, dirty>>

\* The body of go_to_page, called from `caller`.  When the page changes,
\* update_spreadsheet_view clears the view and appends to it the rows that
\* get_rows(start, end) returns for the new window; `last` keeps the range
\* and the rows read.
GoToPage(caller, requested) ==
  LET page  == max(1, min(requested, get_page_count(row_count)))
      moved == [window EXCEPT !.page = page]
      start == get_first_row_offset(moved)
      end   == get_last_row_offset(moved, row_count)
  IN  IF get_current_page(window) # page
        THEN /\ \E rows \in get_rows(cells, start, end) :
                  /\ window' = [moved EXCEPT !.view = Len(rows)]
                  /\ last' = [Call(caller) EXCEPT
                                !.page = requested, !.updated = TRUE,
                                !.start = start, !.end = end,
                                !.result = rows]
             /\ UNCHANGED <<columns, cells, row_count, dirty>>
        ELSE /\ last' = [Call(caller) EXCEPT !.page = requested]
             /\ UNCHANGED <<columns, cells, row_count, dirty, window>>

go_to_page(page) == GoToPage("go_to_page", page)

go_to_next_page == GoToPage("go_to_next_page", get_current_page(window) + 1)

go_to_previous_page ==
  GoToPage("go_to_previous_page", get_current_page(window) - 1)

----------------------------------------------------------------------------
(* MainWindow: the handlers of the window's actions (src/src/ui.rs).  The  *)
(* answers given in the dialogs are arguments of the handlers.             *)

\* The spreadsheet of the window is dropped.
Dropped ==
  /\ columns' = {}
  /\ cells' = EmptyBag
  /\ row_count' = 0
  /\ dirty' = FALSE

\* update_spreadsheet_view: the numbers of rows the view may receive from
\* get_rows(first_row_offset, last_row_offset).
ViewRows(w, tbl, count) ==
  {Len(rows) : rows \in get_rows(tbl, get_first_row_offset(w),
                                 get_last_row_offset(w, count))}

\* if let Some(spreadsheet) = self.spreadsheet.borrow_mut().take(): the
\* window holds None from here on, and the RefMut lives to the end of the
\* if let.  A dirty spreadsheet brings up the Yes / No question (`answer`);
\* on Yes show_save_dialog runs, and when a file is picked (`picked`) it
\* calls save_file, whose self.spreadsheet.borrow() panics on the RefCell
\* that is still mutably borrowed.
ClosePanics(answer, picked) == window.opened /\ dirty /\ answer /\ picked

\* Whether close_file has reached Spreadsheet::save: save_file calls it on
\* the spreadsheet the window holds, and the window holds none after take().
CloseSaves(answer, picked) == FALSE

close_file(answer, picked) ==
  LET asked  == window.opened /\ dirty
      panics == ClosePanics(answer, picked)
  IN  /\ Dropped
      /\ window' = IF panics
                     THEN [window EXCEPT !.opened = FALSE, !.crashed = TRUE]
                     ELSE [window EXCEPT !.opened = FALSE, !.view = 0]
      /\ last' = [Call("close_file") EXCEPT
                    !.answer = asked /\ answer,
                    !.picked = asked /\ answer /\ picked,
                    !.saved = CloseSaves(answer, picked),
                    !.ok = ~panics]

\* save_file(filename) when a file is picked: Spreadsheet::save on the
\* spreadsheet the window holds, `written` the outcome of the writer.
show_save_dialog(picked, written) ==
  IF picked /\ window.opened
    THEN /\ dirty' = IF written THEN FALSE ELSE dirty
         /\ last' = [Call("show_save_dialog") EXCEPT
                       !.picked = TRUE, !.saved = TRUE, !.ok = written]
         /\ UNCHANGED <<columns, cells, row_count, window>>
    ELSE /\ last' = [Call("show_save_dialog") EXCEPT !.picked = picked]
         /\ UNCHANGED <<columns, cells, row_count, dirty, window>>

\* close_file, then Spreadsheet::open(path) on a file with these headers
\* and records (`loaded`: the extension is csv and the loader succeeds),
\* page.set(1), and the view filled for page 1.
open_file(answer, picked, headers, records, loaded) ==
  LET asked  == window.opened /\ dirty
      panics == ClosePanics(answer, picked)
      called == [Call("open_file") EXCEPT
                   !.answer = asked /\ answer,
                   !.picked = asked /\ answer /\ picked,
                   !.saved = CloseSaves(answer, picked)]
      shown  == [page |-> 1, opened |-> TRUE, view |-> 0, crashed |-> FALSE]
  IN  IF panics
        THEN /\ Dropped
             /\ window' = [window EXCEPT !.opened = FALSE, !.crashed = TRUE]
             /\ last' = [called EXCEPT !.ok = FALSE]
        ELSE IF ~loaded
          THEN /\ Dropped
               /\ window' = [window EXCEPT !.opened = FALSE, !.view = 0]
               /\ last' = [called EXCEPT !.ok = FALSE]
          ELSE /\ columns' = LoadColumns(headers)
               /\ cells' = LoadCells(records)
               /\ row_count' = 0
               /\ dirty' = FALSE
               /\ \E n \in ViewRows(shown, LoadCells(records), 0) :
                    window' = [shown EXCEPT !.view = n]
               /\ last' = [called EXCEPT
                             !.values = headers, !.rows = records,
                             !.updated = TRUE,
                             !.start = get_first_row_offset(shown),
                             !.end = get_last_row_offset(shown, 0)]

\* The delete dialog answered with Ok (`accepted`) and rows from..to:
\* delete_rows(from - 1, to - 1), its error shown in a dialog, then
\* update_spreadsheet_view for the current page, which is left as it is.
show_delete_dialog(accepted, from, to) ==
  LET start == ClampRow(row_count, from - 1)
      end   == ClampRow(row_count, to - 1)
      count == end - start + 1
      deleted == start <= end
      tbl   == IF deleted THEN DeleteRowsCells(cells, start, end) ELSE cells
      rows  == IF deleted THEN row_count - count ELSE row_count
  IN  IF accepted /\ from <= to /\ window.opened
        THEN /\ cells' = tbl
             /\ row_count' = rows
             /\ dirty' = (deleted \/ dirty)
             /\ \E n \in ViewRows(window, tbl, rows) :
                  window' = [window EXCEPT !.view = n]
             /\ last' = [Call("show_delete_dialog") EXCEPT
                           !.from = from, !.to = to, !.ok = deleted,
                           !.updated = TRUE,
                           !.start = get_first_row_offset(window),
                           !.end = get_last_row_offset(window, rows)]
             /\ UNCHANGED columns
        ELSE /\ last' = [Call("show_delete_dialog") EXCEPT
                           !.from = IF accepted THEN from ELSE 0,
                           !.to = IF accepted THEN to ELSE 0,
                           !.ok = ~accepted]
             /\ UNCHANGED <<columns, cells, row_count, dirty, window>>

\* A cell of the view edited: row_offset is the row of the view, column the
\* index of the view's column.
on_edit(row_offset, column, value) ==
  /\ window.opened
  /\ row_offset < window.view
  /\ column < get_column_count(columns)
  /\ cells' = SetCellCells(cells, get_first_row_offset(window) + row_offset,
                           column, Some(value))
  /\ dirty' = TRUE
  /\ last' = [Call("on_edit") EXCEPT
                !.row = row_offset, !.column = column, !.value = Some(value)]
  /\ UNCHANGED <<columns, row_count, window>>

----------------------------------------------------------------------------
(* Specifications.  The operations above are unbounded; a step is taken    *)
(* only when the state it leads to is within the bounds of the model.      *)

Bounded ==
  /\ BagCardinality(cells) <= MaxCells
  /\ \A x \in BagToSet(cells) : x.row <= MaxIndex
  /\ row_count <= MaxRowCount
  /\ row_count >= 0 - MaxDeficit
  /\ Cardinality(columns) <= MaxColumns
  /\ \A c \in columns : c.id <= MaxIndex

\* One call of each operation, with its arguments drawn from the model's sets.
InsertColumns ==
  /\ \E position \in InsertPosition, names \in SeqsUpTo(Names, MaxWidth) :
       insert_columns(position, names)
  /\ Bounded'

InsertRow ==
  /\ \E position \in InsertPosition, values \in SeqsUpTo(Texts, MaxWidth) :
       insert_row(position, values)
  /\ Bounded'

DeleteRows ==
  /\ \E start \in Indices, end \in Indices : delete_rows(start, end)
  /\ Bounded'

ReadRows == \E start \in Indices, end \in Indices : GetRows(start, end)

SetCell ==
  \E row \in Indices, column \in 0..(MaxWidth - 1), value \in OptionTexts :
    set_cell(row, column, value)

ReadCell ==
  \E row \in Indices, column \in 0..(MaxWidth - 1) : GetCell(row, column)

\* The whole store is explored within tighter bounds than its two halves.
Small ==
  /\ BagCardinality(cells) <= SmallCells
  /\ \A x \in BagToSet(cells) : x.row >= 0
  /\ row_count <= SmallRowCount
  /\ row_count >= 0
  /\ \A c \in columns : c.id >= 0 /\ c.id < MaxColumns

Next ==
  \/ InsertColumns /\ Small'
  \/ InsertRow /\ Small'
  \/ DeleteRows /\ Small'
  \/ SetCell
  \/ ReadRows
  \/ ReadCell
  \/ GetColumns

Spec == Init /\ [][Next]_vars

\* The operations on rows and cells of a store without columns.
NextRows == InsertRow \/ DeleteRows \/ ReadRows

SpecRows == Init /\ [][NextRows]_vars

\* The operations on the column catalog of a store without rows.
NextColumns == InsertColumns \/ GetColumns

SpecColumns == Init /\ [][NextColumns]_vars

\* Calls that fail in the storage engine, and save.
InsertRowErr ==
  /\ \E position \in InsertPosition, values \in SeqsUpTo(Texts, MaxWidth),
        failed \in 1..(MaxWidth + 2) : insert_row_err(position, values, failed)
  /\ Bounded'

DeleteRowsErr ==
  \E start \in Indices, end \in Indices, failed \in 1..2 :
    delete_rows_err(start, end, failed)

SetCellErr ==
  \E row \in Indices, column \in 0..(MaxWidth - 1), value \in OptionTexts :
    set_cell_err(row, column, value)

InsertColumnsErr ==
  /\ \E position \in InsertPosition, names \in SeqsUpTo(Names, MaxWidth),
        failed \in 1..(MaxWidth + 1) :
       insert_columns_err(position, names, failed)
  /\ Bounded'

Save == \E written \in BOOLEAN : save(written)

Open ==
  /\ \E headers \in SeqsUpTo(Names, MaxWidth), loaded \in BOOLEAN :
       \E records \in SeqsUpTo(Records(headers), MaxRecords) :
         open(headers, records, loaded)
  /\ Bounded'

\* Storage failures are explored within tighter bounds still.
Faulty ==
  /\ Small
  /\ BagCardinality(cells) <= FaultCells
  /\ Cardinality(columns) <= FaultColumns

\* The whole store: calls that succeed, calls that fail in the storage
\* engine, open, save, clear_dirty and the getters.
NextStore ==
  \/ InsertColumns /\ Faulty'
  \/ InsertRow /\ Faulty'
  \/ DeleteRows /\ Faulty'
  \/ SetCell
  \/ InsertColumnsErr /\ Faulty'
  \/ InsertRowErr /\ Faulty'
  \/ DeleteRowsErr /\ Faulty'
  \/ SetCellErr
  \/ Open /\ Faulty'
  \/ Save
  \/ clear_dirty
  \/ is_dirty
  \/ ReadCell
  \/ ReadRows
  \/ GetColumns
  \/ GetColumnCount
  \/ get_row_count

SpecStore == Init /\ [][NextStore]_vars

\* The pager is a function of row_count and the current page: it is explored
\* on stores of rows without cells, as insert_row(End, []) and delete_rows
\* leave them, around every multiple of PAGE_SIZE up to MaxPages pages.
RowCounts ==
  {0 - PAGE_SIZE, 0 - 1}
    \cup {k * PAGE_SIZE + d : k \in 0..MaxPages,
                              d \in {0, 1, PAGE_SIZE \div 2, PAGE_SIZE - 1}}

\* Pages asked of go_to_page.
Pages == (0 - 1)..(MaxPages + 3)

InitPager ==
  /\ columns = {}
  /\ cells = EmptyBag
  /\ row_count \in RowCounts
  /\ dirty = (row_count # 0)
  /\ last = NoCall
  /\ window = [page |-> 1, opened |-> TRUE, view |-> 1, crashed |-> FALSE]

GoToPageStep == \E page \in Pages : go_to_page(page)

NextPager == GoToPageStep \/ go_to_next_page \/ go_to_previous_page

SpecPager == InitPager /\ [][NextPager]_vars

\* The window: a spreadsheet comes into it through open_file alone.  The
\* actions save, close and delete are enabled while a file is open
\* (update_state); a window whose handler has panicked handles nothing.
DialogRows == 1..MaxIndex

Windowed ==
  /\ Faulty
  /\ row_count >= 0 - PAGE_SIZE * MaxEmptyPages

\* The answers to the question of close_file, asked of a dirty spreadsheet:
\* No, Yes without a file, Yes with a file.
Answers ==
  IF window.opened /\ dirty
    THEN {<<FALSE, FALSE>>, <<TRUE, FALSE>>, <<TRUE, TRUE>>}
    ELSE {<<FALSE, FALSE>>}

OpenFile ==
  /\ ~window.crashed
  /\ \E answer \in Answers, loaded \in BOOLEAN,
        headers \in SeqsUpTo(Names, FaultColumns) :
       \E records \in SeqsUpTo(Records(headers), FaultCells) :
         open_file(answer[1], answer[2], headers, records, loaded)
  /\ Windowed'

CloseFile ==
  /\ ~window.crashed
  /\ \E answer \in Answers : close_file(answer[1], answer[2])

SaveDialog ==
  /\ ~window.crashed /\ window.opened
  /\ \E picked \in BOOLEAN, written \in BOOLEAN :
       show_save_dialog(picked, written)

DeleteDialog ==
  /\ ~window.crashed /\ window.opened
  /\ \E accepted \in BOOLEAN, from \in DialogRows, to \in DialogRows :
       show_delete_dialog(accepted, from, to)
  /\ row_count' >= 0 - PAGE_SIZE * MaxEmptyPages

Edit ==
  /\ ~window.crashed
  /\ \E row_offset \in 0..MaxIndex, column \in 0..(MaxWidth - 1),
        value \in Texts : on_edit(row_offset, column, value)

\* page_entry ranges over 1..page_count (update_state).
Paging ==
  /\ ~window.crashed /\ window.opened
  /\ \/ \E page \in 1..get_page_count(row_count) : go_to_page(page)
     \/ go_to_next_page
     \/ go_to_previous_page

NextWindow ==
  \/ OpenFile
  \/ CloseFile
  \/ SaveDialog
  \/ DeleteDialog
  \/ Edit
  \/ Paging

SpecWindow == Init /\ [][NextWindow]_vars

----------------------------------------------------------------------------
(* Vocabulary of the properties.                                           *)

\* Every row index a cell of the model can have, and one beyond.
RowIndices == (-1)..(MaxIndex + 1)

\* The content of logical row r: its (column, value) pairs, with multiplicity.
RowContent(tbl, r) ==
  BagOfAll(LAMBDA x : [column |-> x.column, value |-> x.value],
           [x \in {y \in DOMAIN tbl : y.row = r} |-> tbl[x]])

\* The content of a row that holds exactly values, values[i] in column i - 1.
ContentOf(values) ==
  SetToBag({[column |-> i - 1, value |-> Some(values[i])]
              : i \in 1..Len(values)})

\* values as get_rows returns them.
AsOptions(values) == [i \in 1..Len(values) |-> Some(values[i])]

\* start and end clamped into [0, count - 1].
ClampToLast(count, i) == max(0, min(count - 1, i))

----------------------------------------------------------------------------
(* C1.  The cached row_count is the number of logical rows: it is never    *)
(* negative and every stored cell has a row in [0, row_count).             *)
C1_RowCountCoversCells ==
  /\ row_count >= 0
  /\ \A x \in BagToSet(cells) : x.row >= 0 /\ x.row < row_count

(* C2.  get_rows(start, end) with start <= end returns end - start + 1     *)
(* entries, the i-th being the values of row start + i - 1 in column       *)
(* order: rows without cells are emitted as empty entries, no row is       *)
(* split over two entries.                                                 *)
C2_GetRowsOneEntryPerRow ==
  (last.op = "get_rows" /\ last.start <= last.end) =>
    /\ Len(last.result) = last.end - last.start + 1
    /\ \A i \in 1..Len(last.result) :
         <<last.result[i]>>
           \in get_rows(cells, last.start + i - 1, last.start + i - 1)

(* C3.  delete_rows(s, e) with 0 <= s <= e < row_count succeeds, takes     *)
(* e - s + 1 off row_count, leaves every row below s as it was and moves   *)
(* the content of every row r > e to row r - (e - s + 1).                  *)
C3_DeleteRowsRenumbers ==
  [][LET s == last'.start
         e == last'.end
         count == e - s + 1
     IN  (last'.op = "delete_rows" /\ 0 <= s /\ s <= e /\ e < row_count) =>
           /\ last'.ok
           /\ row_count' = row_count - count
           /\ \A r \in RowIndices :
                /\ r < s => RowContent(cells', r) = RowContent(cells, r)
                /\ r > e => RowContent(cells', r - count) = RowContent(cells, r)
    ]_vars

\* Two rows [1,2] and [2,1] were stored and delete_rows(0, 0) has moved the
\* second one up to row 0.
C3_Witness ==
  /\ last.op = "delete_rows" /\ last.ok
  /\ last.start = 0 /\ last.end = 0
  /\ row_count = 1
  /\ get_rows(cells, 0, 0) = {<< <<Some("2"), Some("1")>> >>}

(* C4.  A successful delete_rows(start, end) works on both bounds clamped  *)
(* into [0, row_count - 1]: there is a row to delete, row_count drops by   *)
(* clampedEnd - clampedStart + 1 and the cells of exactly these rows go.   *)
C4_DeleteRowsClampsToLastRow ==
  [][LET s == ClampToLast(row_count, last'.start)
         e == ClampToLast(row_count, last'.end)
     IN  (last'.op = "delete_rows" /\ last'.ok) =>
           /\ row_count >= 1
           /\ row_count' = row_count - (e - s + 1)
           /\ cells' = DeleteRowsCells(cells, s, e)
    ]_vars

(* C5.  insert_row(Index(p), values) with 0 <= p < row_count shifts before *)
(* it writes: afterwards row p holds exactly values, every former row      *)
(* r >= p is found at r + 1, every row r < p is as it was and row_count    *)
(* has grown by 1.                                                         *)
C5_InsertRowShiftsThenWrites ==
  [][LET p == last'.position.i
     IN  (/\ last'.op = "insert_row" /\ last'.position.kind = "Index"
          /\ 0 <= p /\ p < row_count) =>
           /\ last'.ok
           /\ row_count' = row_count + 1
           /\ RowContent(cells', p) = ContentOf(last'.values)
           /\ \A r \in RowIndices :
                /\ r >= p => RowContent(cells', r + 1) = RowContent(cells, r)
                /\ r < p => RowContent(cells', r) = RowContent(cells, r)
    ]_vars

\* A row was inserted between two stored rows: rows 0 and 2 hold the old
\* rows, row 1 the new values.
C5_Witness ==
  /\ last.op = "insert_row" /\ last.position = Index(1)
  /\ last.values = <<"1", "2">>
  /\ row_count = 3
  /\ RowContent(cells, 0) = ContentOf(<<"2">>)
  /\ RowContent(cells, 1) = ContentOf(<<"1", "2">>)
  /\ RowContent(cells, 2) = ContentOf(<<"1">>)

(* C6.  insert_row(End, values) adds 1 to row_count, after it              *)
(* get_rows(row_count - 1, row_count - 1) returns [values], and the rows   *)
(* that existed before are as they were.                                   *)
C6_AppendedRowReadsBack ==
  [][(last'.op = "insert_row" /\ last'.position = End) =>
       /\ row_count' = row_count + 1
       /\ get_rows(cells', row_count' - 1, row_count' - 1)
            = {<<AsOptions(last'.values)>>}
       /\ \A r \in RowIndices :
            r < row_count => RowContent(cells', r) = RowContent(cells, r)
    ]_vars

(* C7.  With ids 0..N-1, insert_columns at a position in [0, N] (or End)   *)
(* with at least one name succeeds and get_columns() is then the former    *)
(* sequence with names spliced in at the position: the existing ids are    *)
(* shifted without colliding.                                              *)
Contiguous(cols) == {c.id : c \in cols} = 0..(Cardinality(cols) - 1)

Splice(names, position, new) ==
  SubSeq(names, 1, position) \o new \o SubSeq(names, position + 1, Len(names))

C7_InsertColumnsSplices ==
  [][LET n == get_column_count(columns)
         p == IF last'.position = End THEN n ELSE last'.position.i
     IN  (/\ last'.op = "insert_columns" /\ last'.values # <<>>
          /\ Contiguous(columns) /\ 0 <= p /\ p <= n) =>
           /\ last'.ok
           /\ get_columns(columns')
                = Splice(get_columns(columns), p, last'.values)
           /\ Contiguous(columns')
    ]_vars

(* C8.  Whatever position insert_columns is given, it does not fail and    *)
(* the column ids stay 0..N-1 with N = get_column_count().                 *)
C8_ColumnIdsContiguous ==
  /\ Contiguous(columns)
  /\ last.op = "insert_columns" => last.ok

(* C9.  The store holds at most one cell per (row, column) pair.           *)
C9_OneCellPerKey ==
  \A x \in BagToSet(cells) :
    /\ cells[x] = 1
    /\ \A y \in BagToSet(cells) :
         (x.row = y.row /\ x.column = y.column) => x = y

(* C10.  Every entry get_rows returns for rows of the store has one slot   *)
(* per column, slot c holding the value of cell (row, c) or no value -     *)
(* also when the row was given fewer values than there are columns or the  *)
(* columns were added after the row.                                       *)
SlotOf(tbl, row, column) ==
  IF \E x \in BagToSet(tbl) : x.row = row /\ x.column = column
    THEN {x.value : x \in {y \in BagToSet(tbl)
                             : y.row = row /\ y.column = column}}
    ELSE {None}

C10_OneSlotPerColumn ==
  (/\ last.op = "get_rows"
   /\ 0 <= last.start /\ last.start <= last.end /\ last.end < row_count
   /\ Contiguous(columns)
   /\ \A x \in BagToSet(cells) : x.column < get_column_count(columns)) =>
    \A i \in 1..Len(last.result) :
      /\ Len(last.result[i]) = get_column_count(columns)
      /\ \A c \in 1..Len(last.result[i]) :
           last.result[i][c] \in SlotOf(cells, last.start + i - 1, c - 1)

(* C11.  A successful set_cell(row, column, v) on a logical cell - row in  *)
(* [0, row_count), column in [0, column_count) - makes get_cell(row,       *)
(* column) return v, changes no other cell and leaves row_count and the    *)
(* columns as they were; get_cell of a key without a cell is no value.     *)
C11_SetCellThenGetCell ==
  [][LET row == last'.row
         column == last'.column
     IN  (/\ last'.op = "set_cell" /\ last'.ok
          /\ 0 <= row /\ row < row_count
          /\ 0 <= column /\ column < get_column_count(columns)) =>
           /\ get_cell(cells', row, column) = {last'.value}
           /\ \A r \in RowIndices, c \in 0..MaxWidth :
                (r # row \/ c # column) =>
                  get_cell(cells', r, c) = get_cell(cells, r, c)
           /\ row_count' = row_count
           /\ columns' = columns
    ]_vars

(* C12.  delete_rows whose clamped start is greater than its clamped end  *)
(* returns the validation error and has no effect at all: the cells,       *)
(* row_count and dirty are what they were before the call.                 *)
C12_InvertedRangeRejected ==
  [][(/\ last'.op = "delete_rows"
      /\ ClampRow(row_count, last'.start) > ClampRow(row_count, last'.end)) =>
        /\ ~last'.ok
        /\ cells' = cells
        /\ row_count' = row_count
        /\ dirty' = dirty
    ]_vars

\* A rejected delete_rows on a store that holds cells.
C12_Witness ==
  /\ last.op = "delete_rows" /\ ~last.ok
  /\ cells # EmptyBag /\ row_count > 0

(* C13.  insert_row and delete_rows are atomic with respect to storage     *)
(* failures: when a write of the call fails (the shift, the delete or one  *)
(* of the per-cell inserts) the call reports the error and the stored      *)
(* cells are what they were before the call.                               *)
C13_FailedCallLeavesCells ==
  [][(/\ last'.op \in {"insert_row", "delete_rows"}
      /\ ~last'.ok /\ last'.failed > 0) =>
        cells' = cells
    ]_vars

(* C14.  When insert_columns, insert_row, set_cell, delete_rows or save    *)
(* returns an error, row_count and dirty have the values they had before   *)
(* the call; save changes dirty only when it succeeds, and then clears it. *)
C14_ErrorKeepsCountAndDirty ==
  [][/\ (/\ last'.op \in {"insert_columns", "insert_row", "set_cell",
                          "delete_rows", "save"}
         /\ ~last'.ok) =>
           (row_count' = row_count /\ dirty' = dirty)
     /\ (last'.op = "save" /\ dirty' # dirty) => (last'.ok /\ ~dirty')
    ]_vars

\* insert_row has failed after writing a cell: the cell is stored, yet the
\* store counts no row and is not dirty.
C14_Witness ==
  /\ last.op = "insert_row" /\ ~last.ok /\ last.failed > 0
  /\ cells # EmptyBag
  /\ row_count = 0 /\ ~dirty

(* C15.  is_dirty() is false after new() and after a successful open();    *)
(* every mutating call that succeeds (insert_columns, insert_row,          *)
(* set_cell, delete_rows) makes it true; once true it stays true until     *)
(* clear_dirty() or a successful save (open replaces the spreadsheet by    *)
(* one on which it has called clear_dirty()); no getter changes it.        *)
Mutators == {"insert_columns", "insert_row", "set_cell", "delete_rows"}

Getters ==
  {"get_cell", "get_rows", "get_columns", "get_column_count",
   "get_row_count", "is_dirty"}

C15_DirtyLifecycle ==
  /\ []((last.op = "new" \/ (last.op = "open" /\ last.ok)) => ~dirty)
  /\ [][/\ (last'.op \in Mutators /\ last'.ok) => dirty'
        /\ (dirty /\ ~dirty') =>
             \/ last'.op = "clear_dirty"
             \/ last'.op \in {"save", "open"} /\ last'.ok
        /\ last'.op \in Getters => dirty' = dirty
       ]_vars

\* A getter has run on a store that is dirty from an edit.
C15_Witness ==
  /\ last.op = "get_cell" /\ last.result # None
  /\ dirty

(* C16.  Opening a source with headers H and records R has the effect of   *)
(* insert_columns(End, H) followed by insert_row(End, r) for each r of R:  *)
(* afterwards get_columns() = H, get_row_count() = |R| and row i reads     *)
(* back as R[i].                                                           *)
RECURSIVE AppendAll(_, _, _)
AppendAll(tbl, count, records) ==
  IF records = <<>> THEN [cells |-> tbl, row_count |-> count]
  ELSE AppendAll(InsertRowCells(tbl, count, End, Head(records)), count + 1,
                 Tail(records))

C16_OpenIsInsertColumnsThenInsertRows ==
  (last.op = "open" /\ last.ok) =>
    LET H == last.values
        R == last.rows
        appended == AppendAll(EmptyBag, 0, R)
    IN  /\ columns = InsertColumnsOutcome({}, 0, H).table
        /\ cells = appended.cells
        /\ row_count = appended.row_count
        /\ get_columns(columns) = H
        /\ row_count = Len(R)
        /\ \A i \in 1..Len(R) :
             get_rows(cells, i - 1, i - 1) = {<<AsOptions(R[i])>>}

(* C17.  page_count = row_count / PAGE_SIZE + 1, the division being that  *)
(* of integers: page_count - 1 full pages fit in row_count and one more    *)
(* does not.  go_to_page(p) leaves the current page equal to p clamped     *)
(* into [1, page_count]: p itself when it lies in the interval, 1 when p   *)
(* is below it, page_count when p is above it.  With 2500 rows there are 3 *)
(* pages, go_to_page(5) ends on page 3 and go_to_page(0) on page 1.        *)
C17_PageCountAndClamp ==
  /\ [](LET n == get_page_count(row_count)
            r == row_count - (n - 1) * PAGE_SIZE
        IN  /\ row_count >= 0 => (0 <= r /\ r < PAGE_SIZE)
            /\ row_count < 0 => (0 - PAGE_SIZE < r /\ r <= 0)
            /\ row_count = 2500 => n = 3)
  /\ [][last'.op = "go_to_page" =>
          LET p == last'.page
              n == get_page_count(row_count)
          IN  /\ (1 <= p /\ p <= n) => window'.page = p
              /\ p < 1 => window'.page = 1
              /\ (p > n /\ n >= 1) => window'.page = n
              /\ n >= 1 => window'.page \in 1..n
              /\ (row_count = 2500 /\ p = 5) => window'.page = 3
       ]_vars

\* go_to_page(5) on 2500 rows has ended on page 3.
C17_Witness ==
  /\ row_count = 2500
  /\ last.op = "go_to_page" /\ last.page = 5
  /\ window.page = 3

(* C18.  first_row_offset = (current_page - 1) * PAGE_SIZE and             *)
(* last_row_offset = min(first_row_offset + PAGE_SIZE - 1, row_count - 1): *)
(* the window ends at the end of its page or at the last row, whichever    *)
(* comes first, so it never extends past the last row and never spans more *)
(* than PAGE_SIZE rows; it is the range the view reads.  With 2500 rows    *)
(* the offsets of page 2 are 1000 and 1999.                                *)
C18_WindowOffsets ==
  LET first  == get_first_row_offset(window)
      lastly == get_last_row_offset(window, row_count)
  IN  /\ first = (window.page - 1) * PAGE_SIZE
      /\ lastly <= row_count - 1
      /\ lastly - first + 1 <= PAGE_SIZE
      /\ lastly = row_count - 1 \/ lastly = first + PAGE_SIZE - 1
      /\ (row_count = 2500 /\ window.page = 2) =>
           (first = 1000 /\ lastly = 1999)
      /\ last.updated => (last.start = first /\ last.end = lastly)

\* The view has read rows 1000 to 1999 for page 2 of 2500 rows.
C18_Witness ==
  /\ row_count = 2500 /\ window.page = 2
  /\ last.updated /\ last.start = 1000 /\ last.end = 1999

(* C19.  go_to_page(p) sets the current page and reads the range of the    *)
(* new window if and only if p clamped into [1, page_count] differs from   *)
(* the current page; otherwise it changes nothing.  So go_to_page(p) right *)
(* after go_to_page(p) changes nothing and reads nothing, and so do        *)
(* go_to_previous_page on page 1 and go_to_next_page on the last page.     *)
PagerCalls == {"go_to_page", "go_to_next_page", "go_to_previous_page"}

C19_PageChangeTriggersRead ==
  [][last'.op \in PagerCalls =>
       LET n       == get_page_count(row_count)
           clamped == max(1, min(last'.page, n))
           same    == /\ window' = window /\ ~last'.updated
                      /\ cells' = cells /\ row_count' = row_count
       IN  /\ clamped # window.page <=>
                (window'.page # window.page /\ last'.updated)
           /\ clamped # window.page =>
                /\ window'.page = clamped
                /\ last'.start = (clamped - 1) * PAGE_SIZE
                /\ last'.end = get_last_row_offset(window', row_count)
           /\ clamped = window.page => same
           /\ (last.op = "go_to_page" /\ last'.op = "go_to_page"
               /\ last'.page = last.page) => same
           /\ (last'.op = "go_to_previous_page" /\ window.page = 1) => same
           /\ (last'.op = "go_to_next_page" /\ window.page = n) => same
    ]_vars

\* go_to_next_page has left the view alone on the last of several pages.
C19_Witness ==
  /\ last.op = "go_to_next_page" /\ ~last.updated
  /\ window.page = get_page_count(row_count)
  /\ window.page > 1

(* C20.  Skipping the shift on append is a pure optimization: in every     *)
(* reachable state no stored cell has a row >= row_count, so               *)
(* insert_row(End, values) and insert_row(Index(row_count), values) store  *)
(* the same cells (and both add 1 to row_count and set dirty).             *)
C20_AppendIsInsertAtRowCount ==
  /\ \A x \in BagToSet(cells) : x.row < row_count
  /\ \A values \in SeqsUpTo(Texts, MaxWidth) :
       InsertRowCells(cells, row_count, End, values)
         = InsertRowCells(cells, row_count, Index(row_count), values)

(* C22.  insert_columns at a position inside the existing columns keeps    *)
(* every stored cell attached to its column: on a store with rows, after   *)
(* a successful insert_columns(Index(p), names) every column that existed  *)
(* reads, under its new id, the values it read before in every row, and    *)
(* the new columns read as absent.                                         *)
C22_CellsFollowTheirColumns ==
  [][LET p     == last'.position.i
         names == last'.values
         moved(id) == IF id >= p THEN id + Len(names) ELSE id
     IN  (/\ last'.op = "insert_columns" /\ last'.ok
          /\ last'.position.kind = "Index"
          /\ Contiguous(columns)
          /\ 0 <= p /\ p < get_column_count(columns)
          /\ names # <<>>) =>
           \A r \in RowIndices :
             /\ \A c \in columns :
                  get_cell(cells', r, moved(c.id)) = get_cell(cells, r, c.id)
             /\ \A k \in 0..(Len(names) - 1) :
                  get_cell(cells', r, p + k) = {None}
    ]_vars

(* C23.  For every page in [1, page_count] of an open spreadsheet the range *)
(* the view hands to get_rows is a valid window: with row_count > 0,       *)
(* 0 <= first_row_offset <= last_row_offset < row_count, and the view      *)
(* receives last_row_offset - first_row_offset + 1 rows; with row_count =  *)
(* 0 it receives no row.                                                   *)
C23_ViewReadsValidWindow ==
  [][(/\ last'.updated
      /\ window'.opened
      /\ window'.page \in 1..get_page_count(row_count')) =>
        LET first  == last'.start
            lastly == last'.end
        IN  /\ first = get_first_row_offset(window')
            /\ lastly = get_last_row_offset(window', row_count')
            /\ row_count' > 0 =>
                 /\ 0 <= first /\ first <= lastly /\ lastly < row_count'
                 /\ window'.view = lastly - first + 1
            /\ row_count' = 0 => window'.view = 0
    ]_vars

(* C21.  While a spreadsheet is open the current page satisfies           *)
(* 1 <= current_page <= page_count in every state of the window, also      *)
(* after the delete dialog has reduced row_count.                          *)
C21_PageWithinPageCount ==
  (window.opened /\ ~window.crashed) =>
    (1 <= window.page /\ window.page <= get_page_count(row_count))

(* C24.  When close_file runs on a dirty spreadsheet, the user answers Yes *)
(* to the question and picks a file, Spreadsheet::save is invoked on that  *)
(* spreadsheet before it is discarded.                                     *)
C24_CloseSavesWhenAsked ==
  [][(/\ last'.op \in {"close_file", "open_file"}
      /\ window.opened /\ dirty
      /\ last'.answer /\ last'.picked) =>
        last'.saved
    ]_vars

====
